---- MODULE Spec2Model ----
(***************************************************************************)
(* Model of Bug_Report_rezwanul.py: a flat script that opens one browser   *)
(* session, loads the homepage, runs 26 heuristic checks one after the     *)
(* other (each inside its own try/except), and finally builds and writes a *)
(* three-sheet report and quits the browser.                               *)
(*                                                                         *)
(* The browser, the HTTP client and the page are the environment: every    *)
(* call on them either raises or returns a value, drawn with \E from small *)
(* sets.  A check is an operator from (state, environment answers) to the  *)
(* new state; it follows the try/except nesting of the source, so whether  *)
(* an exception escapes a check is computed, not assumed.                  *)
(***************************************************************************)
EXTENDS Integers, Sequences, FiniteSets

VARIABLES
    pc,                     \* position of the script: see Positions
    position,               \* number of the check to run next (1..27)
    rows,                   \* the global findings list `rows`
    homepage_load_seconds,  \* baseline measurement, held in milliseconds, or None
    viewport,               \* window size left by the last successful resize
    page,                   \* what the browser currently shows
    started,                \* history: numbers of the checks started so far
    df,                     \* the findings table built by the finalize step
    summary,                \* the Summary sheet values built by the finalize step
    written,                \* outcome of writing the Excel file
    quits,                  \* number of driver.quit() calls made
    session,                \* environment: "faulty" (every call fails) or "flaky"
    reporting,              \* environment: number of checks that reported so far
    probe                   \* a probing loop followed request by request

script_vars == <<pc, position, rows, homepage_load_seconds, viewport, page,
                 started, df, summary, written, quits, session, reporting>>

vars == <<script_vars, probe>>

-----------------------------------------------------------------------------
(* Bounds of the explored environment *)

\* longest list of elements / entries a page query returns
MaxElems == 2
\* in a flaky session at most this many checks meet a defect or a failing call
MaxReporting == 1

-----------------------------------------------------------------------------
(* Configuration (lines 21-56) *)

NumChecks == 26
DESKTOP_SIZE == <<1366, 768>>
MOBILE_SIZE == <<390, 844>>

SEVERITY_MAP ==
    [ header_overlap       |-> "High",
      color_consistency    |-> "Medium",
      text_contrast        |-> "High",
      spacing              |-> "Low",
      typography_hierarchy |-> "Medium",
      responsive_break     |-> "High",
      broken_links         |-> "High",
      missing_thumbnails   |-> "Medium",
      embedded_images      |-> "Medium",
      search_not_working   |-> "High",
      social_links         |-> "Medium",
      read_more_issue      |-> "High",
      pagination_issue     |-> "Medium",
      menu_collapse        |-> "High",
      image_resize_mobile  |-> "Medium",
      horizontal_scroll    |-> "High",
      footer_stack         |-> "Low",
      font_size_mobile     |-> "Medium",
      homepage_load        |-> "High",
      unoptimized_images   |-> "Medium",
      placeholder_text     |-> "Medium",
      twitter_redirect     |-> "Medium",
      console_errors       |-> "High",
      js_blocking          |-> "Medium",
      text_overlap_mobile  |-> "High" ]

Positions == {"baseline", "checks", "finalize", "quit", "done", "crashed"}

-----------------------------------------------------------------------------
(* Python values and the helpers of lines 61-78 *)

PyNone == [t |-> "None"]
JsRaise == [t |-> "raise"]
Val(x) == [t |-> "val", v |-> x]

\* the answers execute_script can give for a script whose value ranges over S
Js(S) == {JsRaise, PyNone} \cup {Val(x) : x \in S}

\* sequences over S of length at most MaxElems
Lists(S) == UNION {[1..n -> S] : n \in 0..MaxElems}

\* xs[:n]
Take(xs, n) == SubSeq(xs, 1, IF Len(xs) < n THEN Len(xs) ELSE n)

Range(xs) == {xs[i] : i \in 1..Len(xs)}

Abs(x) == IF x < 0 THEN -x ELSE x

RECURSIVE Sum(_)
Sum(xs) == IF xs = <<>> THEN 0 ELSE xs[1] + Sum(Tail(xs))

\* add_row (lines 61-72) with status left at its default "New".  The text
\* columns Steps/Expected/Actual/Screenshot/Environment are constants of the
\* call site and are not kept; `check` records which check made the call.
add_row_front(rs, bug_id, title, severity, k) ==
    <<[BugID |-> bug_id, Title |-> title, Severity |-> severity,
       Status |-> "New", check |-> k]>> \o rs

add_row(rs, bug_id, title, severity, k) ==
    Append(rs, [BugID |-> bug_id, Title |-> title, Severity |-> severity,
                Status |-> "New", check |-> k])

\* safe_js without its try/except: what execute_script does, a raise included
safe_js_unguarded(res) == res

\* safe_js (lines 74-78): the value of execute_script, None if it raised
safe_js(res) == IF res.t = "raise" THEN PyNone ELSE res

\* the call that produced x did not return: its exception goes to the caller
Thrown(x) == x.t = "raise"

\* Python truth of a number-or-None, and `x or []` for a list-or-None
Truthy(x) == x.t = "val" /\ x.v # 0
OrEmpty(x) == IF x.t = "val" THEN x.v ELSE <<>>

-----------------------------------------------------------------------------
(* Exceptions.  A check works on a record s = [rows, viewport, page, raised, *)
(* nav]; raised means an exception is propagating out of the block          *)
(* evaluated, nav lists the clicks and driver.get calls the check issued.   *)

Raise(s) == [s EXCEPT !.raised = TRUE]

Row(s, bug_id, title, severity, k) ==
    [s EXCEPT !.rows = add_row(@, bug_id, title, severity, k)]

\* `except Exception as e: add_row(...)` around a block whose result is r
CaughtNot(r, bug_id, title, severity, k) == r

Caught(r, bug_id, title, severity, k) ==
    IF r.raised
    THEN Row([r EXCEPT !.raised = FALSE], bug_id, title, severity, k)
    ELSE r

\* `except: pass` around a block whose result is r
Swallowed(r) == [r EXCEPT !.raised = FALSE]

\* every resize gives the desktop window
Resized_to_desktop(s, size) == [s EXCEPT !.viewport = "desktop"]

\* driver.set_window_size(*size) returned
Resized(s, size) ==
    [s EXCEPT !.viewport = IF size = DESKTOP_SIZE THEN "desktop" ELSE "mobile"]

-----------------------------------------------------------------------------
(* Check 1: header overlap (lines 133-187) *)

Env1 ==
    [ set_window_size : BOOLEAN,                 \* TRUE: the call returned
      header          : BOOLEAN,                 \* find_element(header) returned
      logo_class      : BOOLEAN,                 \* one of the four class lookups returned
      header_imgs     : {"raise", "none", "img"},\* header.find_elements(img)
      rects           : BOOLEAN,                 \* header.rect and logo.rect returned
      menu            : {"absent", "left", "right"}, \* nav lookup; left: menu x < logo right edge
      children        : {"raise", "overlap", "clear"} ]  \* fallback scan of header children

Faulty1 ==
    [ set_window_size |-> FALSE, header |-> FALSE, logo_class |-> FALSE,
      header_imgs |-> "raise", rects |-> FALSE, menu |-> "absent",
      children |-> "raise" ]

check1_inner(s, e) ==
    IF ~e.header THEN Raise(s)
    ELSE IF ~e.logo_class /\ e.header_imgs = "raise" THEN Raise(s)
    ELSE IF e.logo_class \/ e.header_imgs = "img"
    THEN IF ~e.rects THEN Raise(s)
         ELSE IF e.menu = "left"
              THEN Row(s, "001", "Header overlaps logo on desktop",
                       SEVERITY_MAP["header_overlap"], 1)
         ELSE IF e.menu = "right" THEN s
         ELSE IF e.children = "raise" THEN Raise(s)
         ELSE IF e.children = "overlap"
              THEN Row(s, "001", "Header overlaps logo on desktop",
                       SEVERITY_MAP["header_overlap"], 1)
         ELSE s
    ELSE Row(s, "001", "Header or logo element not found",
             SEVERITY_MAP["header_overlap"], 1)

check1(s, e) ==
    Caught(IF ~e.set_window_size THEN Raise(s)
           ELSE Caught(check1_inner(Resized(s, DESKTOP_SIZE), e),
                       "001", "Header overlap check error",
                       SEVERITY_MAP["header_overlap"], 1),
           "001", "Header overlap script crashed",
           SEVERITY_MAP["header_overlap"], 1)

-----------------------------------------------------------------------------
(* Check 2: colour consistency (lines 190-214) *)

Colors == {"rgb(0, 0, 0)", "rgb(200, 0, 0)", "rgb(0, 0, 200)"}

Env2 == [ btn_colors : Js(Lists(Colors)), link_colors : Js(Lists(Colors)) ]

Faulty2 == [ btn_colors |-> JsRaise, link_colors |-> JsRaise ]

check2(s, e) ==
    LET btn_colors == OrEmpty(safe_js(e.btn_colors))
        link_colors == OrEmpty(safe_js(e.link_colors))
        uniq == Range(btn_colors \o link_colors)
    IN  Caught(IF Thrown(safe_js(e.btn_colors))
                  \/ Thrown(safe_js(e.link_colors))
               THEN Raise(s)
               ELSE IF Cardinality(uniq) > 2
               THEN Row(s, "002", "Inconsistent color scheme across UI",
                        SEVERITY_MAP["color_consistency"], 2)
               ELSE s,
               "002", "Color consistency check error",
               SEVERITY_MAP["color_consistency"], 2)

-----------------------------------------------------------------------------
(* Check 3: text contrast (lines 217-265).  A colour pair is represented by *)
(* what contrast_ratio (lines 245-255) returns for it: parsed = FALSE is its *)
(* None, cr is the ratio in hundredths.                                      *)

ContrastPairs ==
    { [parsed |-> FALSE, cr |-> 0], [parsed |-> TRUE, cr |-> 300],
      [parsed |-> TRUE, cr |-> 450], [parsed |-> TRUE, cr |-> 2100] }

Env3 == [ paras : BOOLEAN, color_pairs : Js(Lists(ContrastPairs)) ]

Faulty3 == [ paras |-> FALSE, color_pairs |-> JsRaise ]

check3(s, e) ==
    LET color_pairs == OrEmpty(safe_js(e.color_pairs))
        low_contrast == {i \in 1..Len(color_pairs) :
                            color_pairs[i].parsed /\ color_pairs[i].cr < 450}
    IN  Caught(IF ~e.paras THEN Raise(s)
               ELSE IF Thrown(safe_js(e.color_pairs))
               THEN Raise(s)
               ELSE IF low_contrast # {}
               THEN Row(s, "003", "Poor text contrast on light background",
                        SEVERITY_MAP["text_contrast"], 3)
               ELSE s,
               "003", "Text contrast check error",
               SEVERITY_MAP["text_contrast"], 3)

-----------------------------------------------------------------------------
(* Check 4: spacing between sections (lines 268-296) *)

Boxes == { [y |-> 0, h |-> 100], [y |-> 50, h |-> 100], [y |-> 110, h |-> 100] }

Env4 == [ sections : Js(Lists(Boxes)) ]

Faulty4 == [ sections |-> JsRaise ]

\* abs(g - avg) > avg*1.5 + 5 with avg = total/n, multiplied through by 2n
BigDev(g, total, n) == 2 * Abs(g * n - total) > 3 * total + 10 * n

check4(s, e) ==
    LET sections == OrEmpty(safe_js(e.sections))
        gaps == [i \in 1..(Len(sections) - 1) |->
                    sections[i + 1].y - (sections[i].y + sections[i].h)]
        big_devs == {i \in 1..Len(gaps) : BigDev(gaps[i], Sum(gaps), Len(gaps))}
    IN  Caught(IF Thrown(safe_js(e.sections)) THEN Raise(s)
               ELSE IF gaps # <<>> /\ big_devs # {}
               THEN Row(s, "004", "Uneven spacing between sections",
                        SEVERITY_MAP["spacing"], 4)
               ELSE s,
               "004", "Spacing check error", SEVERITY_MAP["spacing"], 4)

-----------------------------------------------------------------------------
(* Check 5: typography hierarchy (lines 299-325).  Font sizes are the px   *)
(* numbers px_to_float yields for computed styles.                          *)

FontSizes == {12, 16, 24}

Env5 == [ sizes : Js([h1 : Lists(FontSizes), h2 : Lists(FontSizes)]) ]

Faulty5 == [ sizes |-> JsRaise ]

check5(s, e) ==
    LET sizes == safe_js(e.sizes)
        h1 == IF sizes.t = "val" THEN sizes.v.h1 ELSE <<>>
        h2 == IF sizes.t = "val" THEN sizes.v.h2 ELSE <<>>
    IN  Caught(IF Thrown(safe_js(e.sizes)) THEN Raise(s)
               ELSE IF h1 # <<>> /\ h2 # <<>>
                  /\ Sum(h1) * Len(h2) <= Sum(h2) * Len(h1)
               THEN Row(s, "005", "Incorrect typography hierarchy",
                        SEVERITY_MAP["typography_hierarchy"], 5)
               ELSE s,
               "005", "Typography check error",
               SEVERITY_MAP["typography_hierarchy"], 5)

-----------------------------------------------------------------------------
(* Check 6: responsive layout (lines 328-339).  The max-width script of    *)
(* line 335 has one closing parenthesis too many, so execute_script always *)
(* raises on it.                                                            *)

Widths == {0, 390, 430}

MaxWidthAnswers == {JsRaise}

Env6 == [ set_window_size : BOOLEAN, inner_w : Js(Widths),
          max_width : MaxWidthAnswers ]

Faulty6 == [ set_window_size |-> FALSE, inner_w |-> JsRaise,
             max_width |-> JsRaise ]

check6(s, e) ==
    LET inner_w == safe_js(e.inner_w)
        max_width == safe_js(e.max_width)
    IN  Caught(IF ~e.set_window_size THEN Raise(s)
               ELSE IF Thrown(safe_js(e.inner_w))
                       \/ Thrown(safe_js(e.max_width))
               THEN Raise(Resized(s, MOBILE_SIZE))
               ELSE IF Truthy(max_width) /\ Truthy(inner_w)
                       /\ max_width.v > inner_w.v + 5
               THEN Row(Resized(s, MOBILE_SIZE), "006",
                        "Responsive layout breaks on mobile",
                        SEVERITY_MAP["responsive_break"], 6)
               ELSE Resized(s, MOBILE_SIZE),
               "006", "Responsive check error",
               SEVERITY_MAP["responsive_break"], 6)

-----------------------------------------------------------------------------
(* HTTP probes: what requests.head / requests.get answer *)

NoCall == [t |-> "nocall"]
Resp(code) == [t |-> "resp", status |-> code]
ProbeAnswers == { [t |-> "raise"], Resp(200), Resp(404) }

Failed(a) == a.t = "raise"
Bad(a) == a.t = "resp" /\ a.status >= 400

-----------------------------------------------------------------------------
(* Check 7: broken navigation links (lines 342-364) *)

LinkSample == 120

Links7 ==
    { [href |-> h, head |-> NoCall] : h \in {"raise", "None", "relative"} }
    \cup { [href |-> "http", head |-> a] : a \in ProbeAnswers }

Env7 == [ anchors_found : BOOLEAN, anchors : Lists(Links7) ]

Faulty7 == [ anchors_found |-> FALSE, anchors |-> <<>> ]

check7(s, e) ==
    LET anchors == Take(e.anchors, LinkSample)
        broken == {i \in 1..Len(anchors) :
                      anchors[i].href = "http"
                      /\ (Bad(anchors[i].head) \/ Failed(anchors[i].head))}
    IN  Caught(IF ~e.anchors_found THEN Raise(s)
               ELSE IF \E i \in 1..Len(anchors) : anchors[i].href = "raise"
               THEN Raise(s)
               ELSE IF broken # {}
               THEN Row(s, "007", "Broken navigation links",
                        SEVERITY_MAP["broken_links"], 7)
               ELSE s,
               "007", "Broken links check error",
               SEVERITY_MAP["broken_links"], 7)

-----------------------------------------------------------------------------
(* Check 8: missing article thumbnails (lines 367-393) *)

Imgs8 ==
    { [src |-> h, head |-> NoCall, get |-> NoCall] : h \in {"raise", "None"} }
    \cup { [src |-> "url", head |-> Resp(c), get |-> NoCall] : c \in {200, 404} }
    \cup { [src |-> "url", head |-> [t |-> "raise"], get |-> a] : a \in ProbeAnswers }

Env8 == [ imgs_found : BOOLEAN, imgs : Lists(Imgs8) ]

Faulty8 == [ imgs_found |-> FALSE, imgs |-> <<>> ]

Missing8(img) ==
    \/ img.src = "None"
    \/ img.src = "url" /\ Bad(img.head)
    \/ img.src = "url" /\ Failed(img.head) /\ (Bad(img.get) \/ Failed(img.get))

check8(s, e) ==
    LET imgs == Take(e.imgs, LinkSample)
        missing == {i \in 1..Len(imgs) : Missing8(imgs[i])}
    IN  Caught(IF ~e.imgs_found THEN Raise(s)
               ELSE IF \E i \in 1..Len(imgs) : imgs[i].src = "raise"
               THEN Raise(s)
               ELSE IF missing # {}
               THEN Row(s, "008", "Missing article thumbnails",
                        SEVERITY_MAP["missing_thumbnails"], 8)
               ELSE s,
               "008", "Thumbnail check error",
               SEVERITY_MAP["missing_thumbnails"], 8)

-----------------------------------------------------------------------------
(* Check 9: embedded images (lines 396-411); an image is its naturalWidth *)

NaturalWidths == {0, 640}

Env9 == [ imgs_info : Js(Lists(NaturalWidths)) ]

Faulty9 == [ imgs_info |-> JsRaise ]

check9(s, e) ==
    LET imgs_info == OrEmpty(safe_js(e.imgs_info))
        missing == {i \in 1..Len(imgs_info) : imgs_info[i] = 0}
    IN  Caught(IF Thrown(safe_js(e.imgs_info)) THEN Raise(s)
               ELSE IF missing # {}
               THEN Row(s, "009", "Embedded images not loading",
                        SEVERITY_MAP["embedded_images"], 9)
               ELSE s,
               "009", "Embedded image check error",
               SEVERITY_MAP["embedded_images"], 9)

-----------------------------------------------------------------------------
(* Check 10: placeholder tokens in headlines (lines 414-428) *)

HeadlineSample == 60

Env10 == [ headings_found : BOOLEAN,
           headings : Lists({"raise", "clean", "TODO"}) ]   \* h.text

Faulty10 == [ headings_found |-> FALSE, headings |-> <<>> ]

check10(s, e) ==
    LET headings == Take(e.headings, HeadlineSample)
        typos == {i \in 1..Len(headings) : headings[i] = "TODO"}
    IN  Caught(IF ~e.headings_found THEN Raise(s)
               ELSE IF \E i \in 1..Len(headings) : headings[i] = "raise"
               THEN Raise(s)
               ELSE IF typos # {}
               THEN Row(s, "010", "Spelling/placeholder found in headlines",
                        SEVERITY_MAP["text_overlap_mobile"], 10)
               ELSE s,
               "010", "Headline grammar check error", "Low", 10)

-----------------------------------------------------------------------------
(* Check 11: search button (lines 431-464) *)

Env11 ==
    [ search_input : BOOLEAN,                        \* the input lookup returned
      search_btn   : {"css", "text", "none", "raise"}, \* by selector; by button text;
                                                     \* no button; the button scan raised
      interact     : BOOLEAN,                        \* clear, send_keys and click returned
      navigated    : BOOLEAN,                        \* the click left the homepage
      results      : {"raise", "shown", "missing"} ] \* current_url / results lookup

Faulty11 ==
    [ search_input |-> FALSE, search_btn |-> "raise", interact |-> FALSE,
      navigated |-> FALSE, results |-> "raise" ]

check11_interact(s, e) ==
    IF ~e.interact THEN Raise(s)
    ELSE LET s1 == [s EXCEPT !.page = IF e.navigated THEN "other" ELSE @,
                              !.nav = Append(@, "click")]
         IN  IF e.results = "raise" THEN Raise(s1)
             ELSE IF e.results = "missing"
             THEN Row(s1, "011", "Search button not working",
                      SEVERITY_MAP["search_not_working"], 11)
             ELSE s1

check11(s, e) ==
    Caught(IF e.search_btn = "raise" THEN Raise(s)
           ELSE IF e.search_input /\ e.search_btn \in {"css", "text"}
           THEN Caught(check11_interact(s, e),
                       "011", "Search button error",
                       SEVERITY_MAP["search_not_working"], 11)
           ELSE Row(s, "011", "Search elements not found",
                    SEVERITY_MAP["search_not_working"], 11),
           "011", "Search check error",
           SEVERITY_MAP["search_not_working"], 11)

-----------------------------------------------------------------------------
(* Check 12: social media links (lines 467-481); the anchors matched by the *)
(* five selectors, in the order they are visited                            *)

Env12 == [ elems_found : BOOLEAN,
           hrefs : Lists({"raise", "None", "placeholder", "official"}) ]

Faulty12 == [ elems_found |-> FALSE, hrefs |-> <<>> ]

check12(s, e) ==
    LET bad == {i \in 1..Len(e.hrefs) : e.hrefs[i] = "placeholder"}
    IN  Caught(IF ~e.elems_found THEN Raise(s)
               ELSE IF \E i \in 1..Len(e.hrefs) : e.hrefs[i] = "raise"
               THEN Raise(s)
               ELSE IF bad # {}
               THEN Row(s, "012", "Incorrect social media links",
                        SEVERITY_MAP["social_links"], 12)
               ELSE s,
               "012", "Social link check error",
               SEVERITY_MAP["social_links"], 12)

-----------------------------------------------------------------------------
(* Check 13: Read More links (lines 484-506) *)

ReadMoreSample == 8

Links13 ==
    { [href |-> h, head |-> NoCall] : h \in {"raise", "None"} }
    \cup { [href |-> "url", head |-> a] : a \in ProbeAnswers }

Env13 == [ elems_found : BOOLEAN, read_more_elems : Lists(Links13) ]

Faulty13 == [ elems_found |-> FALSE, read_more_elems |-> <<>> ]

\* the loop of lines 489-502: "raise", "inconsistent" (break) or "ok"
RECURSIVE scan13(_)
scan13(xs) ==
    IF xs = <<>> THEN "ok"
    ELSE IF xs[1].href = "raise" THEN "raise"
    ELSE IF xs[1].href = "None" THEN "inconsistent"
    ELSE IF Bad(xs[1].head) \/ Failed(xs[1].head) THEN "inconsistent"
    ELSE scan13(Tail(xs))

check13(s, e) ==
    LET outcome == scan13(Take(e.read_more_elems, ReadMoreSample))
    IN  Caught(IF ~e.elems_found THEN Raise(s)
               ELSE IF outcome = "raise" THEN Raise(s)
               ELSE IF outcome = "inconsistent"
               THEN Row(s, "013", "Read More button navigation issue",
                        SEVERITY_MAP["read_more_issue"], 13)
               ELSE s,
               "013", "Read more check error",
               SEVERITY_MAP["read_more_issue"], 13)

-----------------------------------------------------------------------------
(* Check 14: pagination (lines 509-553) *)

PaginationLimit == 6

Env14 ==
    [ pag_next     : BOOLEAN,                   \* the first lookup of Next returned
      stop_at      : 1..(PaginationLimit + 1),  \* iteration in which a call stops the
                                                \* loop; PaginationLimit + 1: none does
      stop_how     : {"url_raise", "disabled", "click_raise", "refind_raise"},
      next_visible : BOOLEAN,                   \* Next found, displayed and enabled
      get          : BOOLEAN ]                  \* driver.get(TARGET_URL) returned

Faulty14 ==
    [ pag_next |-> FALSE, stop_at |-> 1, stop_how |-> "url_raise",
      next_visible |-> FALSE, get |-> FALSE ]

\* the loop of lines 522-534 from iteration i on, after `clicks` clicks
RECURSIVE paginate(_, _, _)
paginate(i, clicks, e) ==
    IF i > PaginationLimit THEN [clicks |-> clicks, raised |-> FALSE]
    ELSE IF e.stop_at = i
    THEN IF e.stop_how = "url_raise" THEN [clicks |-> clicks, raised |-> TRUE]
         ELSE IF e.stop_how = "refind_raise"
         THEN [clicks |-> clicks + 1, raised |-> FALSE]
         ELSE [clicks |-> clicks, raised |-> FALSE]
    ELSE paginate(i + 1, clicks + 1, e)

\* the return to the target URL moved into a finally clause
check14_paging_always_back(s, e) ==
    LET loop == paginate(1, 0, e)
        s1 == [s EXCEPT !.page = IF loop.clicks > 0 THEN "other" ELSE @,
                        !.nav = @ \o [i \in 1..loop.clicks |-> "click"]]
        s2 == IF e.next_visible /\ ~loop.raised
              THEN Row(s1, "014", "Pagination Next button visible on last page",
                       SEVERITY_MAP["pagination_issue"], 14)
              ELSE s1
        s3 == [s2 EXCEPT !.nav = Append(@, "get")]
    IN  IF ~e.get THEN Raise(s3)
        ELSE [s3 EXCEPT !.page = "home", !.raised = loop.raised]

\* lines 520-546: the clicks of the loop, then the lookup of Next and the
\* driver.get of line 545, which a raise of the loop skips
check14_paging(s, e) ==
    LET loop == paginate(1, 0, e)
        s1 == [s EXCEPT !.page = IF loop.clicks > 0 THEN "other" ELSE @,
                        !.nav = @ \o [i \in 1..loop.clicks |-> "click"]]
        s2 == IF e.next_visible
              THEN Row(s1, "014", "Pagination Next button visible on last page",
                       SEVERITY_MAP["pagination_issue"], 14)
              ELSE s1
        s3 == [s2 EXCEPT !.nav = Append(@, "get")]
    IN  IF loop.raised THEN Raise(s1)
        ELSE IF ~e.get THEN Raise(s3)
        ELSE [s3 EXCEPT !.page = "home"]

check14(s, e) ==
    Caught(IF e.pag_next THEN Swallowed(check14_paging(s, e)) ELSE s,
           "014", "Pagination check error",
           SEVERITY_MAP["pagination_issue"], 14)

-----------------------------------------------------------------------------
(* Check 15: header menu on mobile (lines 556-576) *)

NavSample == 2

Env15 ==
    [ set_window_size : BOOLEAN,
      hamb            : BOOLEAN,     \* the hamburger lookup and its click returned
      navs_found      : BOOLEAN,     \* find_elements(nav) returned
      navs            : Lists({"raise", "wide", "narrow"}) ]  \* n.rect

Faulty15 ==
    [ set_window_size |-> FALSE, hamb |-> FALSE, navs_found |-> FALSE,
      navs |-> <<>> ]

\* the loop of lines 570-574: "raise", "wide" (row and break) or "none"
RECURSIVE scan15(_)
scan15(xs) ==
    IF xs = <<>> THEN "none"
    ELSE IF xs[1] = "raise" THEN "raise"
    ELSE IF xs[1] = "wide" THEN "wide"
    ELSE scan15(Tail(xs))

check15_handler(s, e) ==
    LET outcome == scan15(Take(e.navs, NavSample))
    IN  IF ~e.navs_found THEN Raise(s)
        ELSE IF outcome = "raise" THEN Raise(s)
        ELSE IF outcome = "wide"
        THEN Row(s, "015", "Header menu not collapsing on mobile",
                 SEVERITY_MAP["menu_collapse"], 15)
        ELSE s

check15(s, e) ==
    Caught(IF ~e.set_window_size THEN Raise(s)
           ELSE IF e.hamb THEN Resized(s, MOBILE_SIZE)
           ELSE check15_handler(Resized(s, MOBILE_SIZE), e),
           "015", "Header menu mobile check error",
           SEVERITY_MAP["menu_collapse"], 15)

-----------------------------------------------------------------------------
(* Check 16: image widths on mobile (lines 579-596) *)

ImageSample == 60

Env16 ==
    [ set_window_size : BOOLEAN, imgs_found : BOOLEAN,
      imgs : Lists({"raise", "wide", "fits"}) ]   \* img.rect / get_attribute

Faulty16 == [ set_window_size |-> FALSE, imgs_found |-> FALSE, imgs |-> <<>> ]

check16(s, e) ==
    LET imgs == Take(e.imgs, ImageSample)
        oversized == {i \in 1..Len(imgs) : imgs[i] = "wide"}
    IN  Caught(IF ~e.set_window_size THEN Raise(s)
               ELSE IF ~e.imgs_found THEN Raise(Resized(s, MOBILE_SIZE))
               ELSE IF oversized # {}
               THEN Row(Resized(s, MOBILE_SIZE), "016",
                        "Images not resizing on mobile",
                        SEVERITY_MAP["image_resize_mobile"], 16)
               ELSE Resized(s, MOBILE_SIZE),
               "016", "Image resize mobile check error",
               SEVERITY_MAP["image_resize_mobile"], 16)

-----------------------------------------------------------------------------
(* Check 17: horizontal scrolling on mobile (lines 599-609) *)

Env17 == [ set_window_size : BOOLEAN, inner_w : Js(Widths), body_w : Js(Widths) ]

Faulty17 == [ set_window_size |-> FALSE, inner_w |-> JsRaise, body_w |-> JsRaise ]

check17(s, e) ==
    LET inner_w == safe_js(e.inner_w)
        body_w == safe_js(e.body_w)
    IN  Caught(IF ~e.set_window_size THEN Raise(s)
               ELSE IF Thrown(safe_js(e.inner_w))
                       \/ Thrown(safe_js(e.body_w))
               THEN Raise(Resized(s, MOBILE_SIZE))
               ELSE IF Truthy(body_w) /\ Truthy(inner_w) /\ body_w.v > inner_w.v + 5
               THEN Row(Resized(s, MOBILE_SIZE), "017",
                        "Horizontal scrolling required on mobile",
                        SEVERITY_MAP["horizontal_scroll"], 17)
               ELSE Resized(s, MOBILE_SIZE),
               "017", "Horizontal scroll check error",
               SEVERITY_MAP["horizontal_scroll"], 17)

-----------------------------------------------------------------------------
(* Check 18: console errors (lines 612-621); "error text" is an entry below *)
(* SEVERE whose message contains "error"                                    *)

Env18 == [ get_log : BOOLEAN, logs : Lists({"SEVERE", "error text", "INFO"}) ]

Faulty18 == [ get_log |-> FALSE, logs |-> <<>> ]

check18(s, e) ==
    LET error_logs == {i \in 1..Len(e.logs) : e.logs[i] \in {"SEVERE", "error text"}}
    IN  Caught(IF ~e.get_log THEN Raise(s)
               ELSE IF error_logs # {}
               THEN Row(s, "018", "Console errors logged",
                        SEVERITY_MAP["console_errors"], 18)
               ELSE s,
               "018", "Console log check error",
               SEVERITY_MAP["console_errors"], 18)

-----------------------------------------------------------------------------
(* Check 19: long tasks (lines 624-641).  A long-task entry is its duration; *)
(* window.performance.timing is its loadEventEnd - navigationStart.          *)

Durations == {10, 80}
LoadTimes == {0, 2000, 4000}
LongTaskMs == 50
SlowLoadMs == 3000

Env19 == [ perf : Js(Lists(Durations)), timing : Js(LoadTimes) ]

Faulty19 == [ perf |-> JsRaise, timing |-> JsRaise ]

check19_body(s, e) ==
    LET perf == OrEmpty(safe_js(e.perf))
        long_tasks == {i \in 1..Len(perf) : perf[i] > LongTaskMs}
    IN  IF Thrown(safe_js(e.perf)) THEN Raise(s)
        ELSE IF Len(perf) > 0 /\ long_tasks # {}
        THEN Row(s, "019", "JS blocking main-thread rendering",
                 SEVERITY_MAP["js_blocking"], 19)
        ELSE s

\* the handler of lines 632-641, entered only when the body raised
check19_fallback(s, e) ==
    LET nav == safe_js(e.timing)
    IN  Caught(IF Thrown(nav) THEN Raise(s)
               ELSE IF nav.t = "val" /\ nav.v # 0 /\ nav.v > SlowLoadMs
               THEN Row(s, "019", "JS blocking suspected",
                        SEVERITY_MAP["js_blocking"], 19)
               ELSE s,
               "019", "JS blocking check error",
               SEVERITY_MAP["js_blocking"], 19)

check19(s, e) ==
    LET r == check19_body(s, e)
    IN  IF r.raised THEN check19_fallback(Swallowed(r), e) ELSE r

-----------------------------------------------------------------------------
(* Check 20: footer stacking on mobile (lines 644-661) *)

FooterSample == 6

Env20 == [ set_window_size : BOOLEAN, footer : BOOLEAN,
           child_widths : Js(Lists(Widths)) ]

Faulty20 == [ set_window_size |-> FALSE, footer |-> FALSE,
              child_widths |-> JsRaise ]

check20(s, e) ==
    LET child_widths == Take(OrEmpty(safe_js(e.child_widths)), FooterSample)
    IN  Caught(IF ~e.set_window_size THEN Raise(s)
               ELSE IF e.footer /\ Thrown(safe_js(e.child_widths))
               THEN Raise(Resized(s, MOBILE_SIZE))
               ELSE IF e.footer
                       /\ \E i \in 1..Len(child_widths) :
                             child_widths[i] > MOBILE_SIZE[1]
               THEN Row(Resized(s, MOBILE_SIZE), "020",
                        "Footer stacking issues on mobile",
                        SEVERITY_MAP["footer_stack"], 20)
               ELSE Resized(s, MOBILE_SIZE),
               "020", "Footer stacking check error",
               SEVERITY_MAP["footer_stack"], 20)

-----------------------------------------------------------------------------
(* Check 21: font size on mobile (lines 664-679) *)

Env21 == [ set_window_size : BOOLEAN, sizes : Js(Lists(FontSizes)) ]

Faulty21 == [ set_window_size |-> FALSE, sizes |-> JsRaise ]

check21(s, e) ==
    LET sizes == OrEmpty(safe_js(e.sizes))
        smalls == {i \in 1..Len(sizes) : sizes[i] * 10 < 135}
    IN  Caught(IF ~e.set_window_size THEN Raise(s)
               ELSE IF Thrown(safe_js(e.sizes))
               THEN Raise(Resized(s, MOBILE_SIZE))
               ELSE IF smalls # {}
               THEN Row(Resized(s, MOBILE_SIZE), "021",
                        "Font size on mobile too small",
                        SEVERITY_MAP["font_size_mobile"], 21)
               ELSE Resized(s, MOBILE_SIZE),
               "021", "Font size check error",
               SEVERITY_MAP["font_size_mobile"], 21)

-----------------------------------------------------------------------------
(* Check 22: homepage load time (lines 682-697).  The navigation object is  *)
(* "timing" (has loadEventEnd and navigationStart), "entry" (has duration   *)
(* but no navigationStart) or "other" (has neither); ms is the value read.  *)

NavObjects ==
    { [kind |-> k, ms |-> m] : k \in {"timing", "entry"}, m \in LoadTimes }
    \cup { [kind |-> "other", ms |-> 0] }

Env22 == [ nav : Js(NavObjects) ]

Faulty22 == [ nav |-> JsRaise ]

\* lines 686-691
nav_load_ms(nav) ==
    IF nav.t = "val" /\ nav.v.kind \in {"timing", "entry"}
    THEN Val(nav.v.ms)
    ELSE PyNone

\* line 693: homepage_load_seconds*1000 if homepage_load_seconds else None;
\* "TypeError" stands for the exception None*1000 raises
baseline_load_ms_unguarded(hls) ==
    IF hls.t = "val" THEN hls ELSE [t |-> "TypeError"]

baseline_load_ms(hls) ==
    IF Truthy(hls) THEN hls ELSE PyNone

check22(s, hls, e) ==
    LET from_nav == nav_load_ms(safe_js(e.nav))
        load_ms == IF from_nav.t = "None" THEN baseline_load_ms(hls) ELSE from_nav
    IN  Caught(IF Thrown(safe_js(e.nav)) THEN Raise(s)
               ELSE IF load_ms.t = "TypeError" THEN Raise(s)
               ELSE IF Truthy(load_ms) /\ load_ms.v > SlowLoadMs
               THEN Row(s, "022", "Homepage load performance slow",
                        SEVERITY_MAP["homepage_load"], 22)
               ELSE s,
               "022", "Homepage load measurement error",
               SEVERITY_MAP["homepage_load"], 22)

-----------------------------------------------------------------------------
(* Check 23: unoptimized images (lines 700-726) *)

ImageSizeLimit == 200000

Sized(n) == [t |-> "resp", size |-> n]

\* size PyNone: the response carries no Content-Length
Imgs23 ==
    { [src |-> h, head |-> NoCall, get |-> NoCall] : h \in {"raise", "None", "data"} }
    \cup { [src |-> "http", head |-> Sized(n), get |-> NoCall] :
              n \in {PyNone, Val(150000), Val(250000)} }
    \cup { [src |-> "http", head |-> [t |-> "raise"], get |-> a] :
              a \in {[t |-> "raise"], Sized(Val(150000)), Sized(Val(250000))} }

Env23 == [ imgs_found : BOOLEAN, imgs : Lists(Imgs23) ]

Faulty23 == [ imgs_found |-> FALSE, imgs |-> <<>> ]

Large23(img) ==
    /\ img.src = "http"
    /\ \/ img.head.t = "resp" /\ Truthy(img.head.size)
          /\ img.head.size.v > ImageSizeLimit
       \/ img.head.t = "raise" /\ img.get.t = "resp"
          /\ img.get.size.v > ImageSizeLimit

check23(s, e) ==
    LET imgs == Take(e.imgs, ImageSample)
        large_imgs == {i \in 1..Len(imgs) : Large23(imgs[i])}
    IN  Caught(IF ~e.imgs_found THEN Raise(s)
               ELSE IF \E i \in 1..Len(imgs) : imgs[i].src = "raise"
               THEN Raise(s)
               ELSE IF large_imgs # {}
               THEN Row(s, "023", "Unoptimized images causing slow rendering",
                        SEVERITY_MAP["unoptimized_images"], 23)
               ELSE s,
               "023", "Unoptimized images check error",
               SEVERITY_MAP["unoptimized_images"], 23)

-----------------------------------------------------------------------------
(* Check 24: placeholder text (lines 729-739) *)

PlaceholderSample == 10

Env24 == [ texts_found : BOOLEAN, texts : Lists({"raise", "text"}) ]  \* t.text

Faulty24 == [ texts_found |-> FALSE, texts |-> <<>> ]

check24(s, e) ==
    LET texts == Take(e.texts, PlaceholderSample)
    IN  Caught(IF ~e.texts_found THEN Raise(s)
               ELSE IF \E i \in 1..Len(texts) : texts[i] = "raise"
               THEN Raise(s)
               ELSE IF texts # <<>>
               THEN Row(s, "024", "Placeholder text visible in Privacy section",
                        SEVERITY_MAP["placeholder_text"], 24)
               ELSE s,
               "024", "Placeholder check error",
               SEVERITY_MAP["placeholder_text"], 24)

-----------------------------------------------------------------------------
(* Check 25: Twitter icon (lines 742-755); an anchor is what get_attribute *)
(* gives for its href                                                       *)

Env25 == [ anchors_found : BOOLEAN,
           anchors : Lists({"raise", "None", "twitter.com", "x.com"}) ]

Faulty25 == [ anchors_found |-> FALSE, anchors |-> <<>> ]

\* the loop of lines 747-753
RECURSIVE scan25(_, _)
scan25(s, xs) ==
    IF xs = <<>> THEN s
    ELSE IF xs[1] = "raise" THEN Raise(s)
    ELSE IF xs[1] = "x.com"
    THEN scan25(Row(s, "025", "Twitter icon redirects to x.com",
                    SEVERITY_MAP["twitter_redirect"], 25), Tail(xs))
    ELSE scan25(s, Tail(xs))

check25(s, e) ==
    Caught(IF ~e.anchors_found THEN Raise(s) ELSE scan25(s, e.anchors),
           "025", "Twitter link check error",
           SEVERITY_MAP["twitter_redirect"], 25)

-----------------------------------------------------------------------------
(* Check 26: text overlap on mobile (lines 758-783) *)

Env26 == [ set_window_size : BOOLEAN, overlaps : Js(Lists({"pair"})) ]

Faulty26 == [ set_window_size |-> FALSE, overlaps |-> JsRaise ]

check26(s, e) ==
    LET overlaps == OrEmpty(safe_js(e.overlaps))
    IN  Caught(IF ~e.set_window_size THEN Raise(s)
               ELSE IF Thrown(safe_js(e.overlaps))
               THEN Raise(Resized(s, MOBILE_SIZE))
               ELSE IF overlaps # <<>>
               THEN Row(Resized(s, MOBILE_SIZE), "011b",
                        "Text overlap with interactive elements on mobile",
                        SEVERITY_MAP["text_overlap_mobile"], 26)
               ELSE Resized(s, MOBILE_SIZE),
               "011b", "Text overlap detection error",
               SEVERITY_MAP["text_overlap_mobile"], 26)

-----------------------------------------------------------------------------
(* Baseline load (lines 117-126).  wall is (time.time() - t0)*1000, at least *)
(* the two seconds slept.                                                    *)

WallTimes == {2500, 4000}

EnvBaseline == [ get : BOOLEAN, timing : Js(LoadTimes), wall : WallTimes ]

FaultyBaseline == [ get |-> FALSE, timing |-> JsRaise, wall |-> 2500 ]

\* the load without its try/except: a failed driver.get ends the script
baseline_uncaught(e) ==
    LET js == safe_js(e.timing)
        load_time == IF Truthy(js) THEN js.v ELSE e.wall
    IN  IF ~e.get
        THEN [hls |-> PyNone, page |-> "blank", raised |-> TRUE]
        ELSE IF Thrown(js)
        THEN [hls |-> PyNone, page |-> "home", raised |-> TRUE]
        ELSE [hls |-> Val(load_time), page |-> "home", raised |-> FALSE]

\* raised: an exception left the block (the except of line 124 takes all)
baseline(e) ==
    LET js == safe_js(e.timing)
        load_time == IF Truthy(js) THEN js.v ELSE e.wall
    IN  IF ~e.get
        THEN [hls |-> PyNone, page |-> "blank", raised |-> FALSE]
        ELSE IF Thrown(js)
        THEN [hls |-> PyNone, page |-> "home", raised |-> FALSE]
        ELSE [hls |-> Val(load_time), page |-> "home", raised |-> FALSE]

-----------------------------------------------------------------------------
(* Finalize (lines 788-818) *)

PlaceholderLow ==
    [BugID |-> "N/A", Title |-> "No issues detected (automated checks)",
     Severity |-> "Low", Status |-> "Passed", check |-> 0]

\* line 792
Placeholder ==
    [BugID |-> "N/A", Title |-> "No issues detected (automated checks)",
     Severity |-> "Info", Status |-> "Passed", check |-> 0]

DataFrameAsIs(rs) == rs

\* lines 789-792
DataFrame(rs) == IF rs = <<>> THEN <<Placeholder>> ELSE rs

count_all(table, sev) == Len(table)

\* len(df[df["Severity"] == sev])
count_severity(table, sev) ==
    Cardinality({i \in 1..Len(table) : table[i].Severity = sev})

stability_any(table) ==
    IF count_severity(table, "High") + count_severity(table, "Medium") > 0
    THEN "Needs Improvement" ELSE "Stable"

\* line 800
stability(table) ==
    IF count_severity(table, "High") > 0 THEN "Needs Improvement" ELSE "Stable"

\* lines 793-803
Summary(table) ==
    [ built     |-> TRUE,
      Total     |-> Len(table),
      High      |-> count_severity(table, "High"),
      Medium    |-> count_severity(table, "Medium"),
      Low       |-> count_severity(table, "Low"),
      Stability |-> stability(table) ]

\* the placeholder row appended to the findings list itself
aggregate_in_place(rs) ==
    [rows |-> DataFrame(rs), df |-> DataFrame(rs),
     summary |-> Summary(DataFrame(rs))]

\* lines 789-803: what the aggregation leaves in rows, df and summary; the
\* list is only read, the table and the placeholder row are new objects
aggregate(rs) ==
    [rows |-> rs, df |-> DataFrame(rs), summary |-> Summary(DataFrame(rs))]

after_report_no_finally(ok) == IF ok THEN "quit" ELSE "done"

\* lines 788, 814-818: the try ends in `finally: driver.quit()` on both paths
after_report(ok) == "quit"

-----------------------------------------------------------------------------
(* The script *)

\* no probing loop is being followed
ProbeIdle ==
    [check |-> 0, elems |-> <<>>, i |-> 0, stage |-> "idle", log |-> <<>>,
     flagged |-> <<>>, rows |-> <<>>]

S ==
    [rows |-> rows, viewport |-> viewport, page |-> page, raised |-> FALSE,
     nav |-> <<>>]

\* the answers a session may give where a healthy browser gives one of E
Admit(E, faulty) == IF session = "faulty" THEN {faulty} ELSE E

Init ==
    /\ pc = "baseline"
    /\ position = 1
    /\ rows = <<>>
    /\ homepage_load_seconds = PyNone
    /\ viewport = "maximized"
    /\ page = "blank"
    /\ started = <<>>
    /\ df = <<>>
    /\ summary = [built |-> FALSE]
    /\ written = "pending"
    /\ quits = 0
    /\ session \in {"faulty", "flaky"}
    /\ reporting = 0
    /\ probe = ProbeIdle

Baseline ==
    /\ pc = "baseline"
    /\ \E e \in Admit(EnvBaseline, FaultyBaseline) :
          /\ homepage_load_seconds' = baseline(e).hls
          /\ page' = baseline(e).page
          /\ pc' = IF baseline(e).raised THEN "crashed" ELSE "checks"
    /\ UNCHANGED <<position, rows, viewport, started, df, summary, written,
                   quits, session, reporting, probe>>

\* check k ends with result r: an exception that escapes it ends the script
Step(k, r) ==
    /\ rows' = r.rows
    /\ viewport' = r.viewport
    /\ page' = r.page
    /\ started' = Append(started, k)
    /\ reporting' = IF Len(r.rows) > Len(rows) THEN reporting + 1 ELSE reporting
    /\ session = "flaky" => reporting' <= MaxReporting
    /\ IF r.raised
       THEN pc' = "crashed" /\ position' = position
       ELSE /\ position' = k + 1
            /\ pc' = IF k = NumChecks THEN "finalize" ELSE "checks"
    /\ UNCHANGED <<homepage_load_seconds, df, summary, written, quits, session,
                   probe>>

At(k) == pc = "checks" /\ position = k

Check1 == At(1) /\ \E e \in Admit(Env1, Faulty1) : Step(1, check1(S, e))
Check2 == At(2) /\ \E e \in Admit(Env2, Faulty2) : Step(2, check2(S, e))
Check3 == At(3) /\ \E e \in Admit(Env3, Faulty3) : Step(3, check3(S, e))
Check4 == At(4) /\ \E e \in Admit(Env4, Faulty4) : Step(4, check4(S, e))
Check5 == At(5) /\ \E e \in Admit(Env5, Faulty5) : Step(5, check5(S, e))
Check6 == At(6) /\ \E e \in Admit(Env6, Faulty6) : Step(6, check6(S, e))
Check7 == At(7) /\ \E e \in Admit(Env7, Faulty7) : Step(7, check7(S, e))
Check8 == At(8) /\ \E e \in Admit(Env8, Faulty8) : Step(8, check8(S, e))
Check9 == At(9) /\ \E e \in Admit(Env9, Faulty9) : Step(9, check9(S, e))
Check10 == At(10) /\ \E e \in Admit(Env10, Faulty10) : Step(10, check10(S, e))
Check11 == At(11) /\ \E e \in Admit(Env11, Faulty11) : Step(11, check11(S, e))
Check12 == At(12) /\ \E e \in Admit(Env12, Faulty12) : Step(12, check12(S, e))
Check13 == At(13) /\ \E e \in Admit(Env13, Faulty13) : Step(13, check13(S, e))
Check14 == At(14) /\ \E e \in Admit(Env14, Faulty14) : Step(14, check14(S, e))
Check15 == At(15) /\ \E e \in Admit(Env15, Faulty15) : Step(15, check15(S, e))
Check16 == At(16) /\ \E e \in Admit(Env16, Faulty16) : Step(16, check16(S, e))
Check17 == At(17) /\ \E e \in Admit(Env17, Faulty17) : Step(17, check17(S, e))
Check18 == At(18) /\ \E e \in Admit(Env18, Faulty18) : Step(18, check18(S, e))
Check19 == At(19) /\ \E e \in Admit(Env19, Faulty19) : Step(19, check19(S, e))
Check20 == At(20) /\ \E e \in Admit(Env20, Faulty20) : Step(20, check20(S, e))
Check21 == At(21) /\ \E e \in Admit(Env21, Faulty21) : Step(21, check21(S, e))
Check22 ==
    At(22) /\ \E e \in Admit(Env22, Faulty22) :
                 Step(22, check22(S, homepage_load_seconds, e))
Check23 == At(23) /\ \E e \in Admit(Env23, Faulty23) : Step(23, check23(S, e))
Check24 == At(24) /\ \E e \in Admit(Env24, Faulty24) : Step(24, check24(S, e))
Check25 == At(25) /\ \E e \in Admit(Env25, Faulty25) : Step(25, check25(S, e))
Check26 == At(26) /\ \E e \in Admit(Env26, Faulty26) : Step(26, check26(S, e))

\* lines 788-816: build the table and the summary, then write the workbook
Finalize ==
    /\ pc = "finalize"
    /\ rows' = aggregate(rows).rows
    /\ df' = aggregate(rows).df
    /\ summary' = aggregate(rows).summary
    /\ \E ok \in BOOLEAN :
          /\ written' = IF ok THEN "saved" ELSE "failed"
          /\ pc' = after_report(ok)
    /\ UNCHANGED <<position, homepage_load_seconds, viewport, page,
                   started, quits, session, reporting, probe>>

\* lines 817-818
Quit ==
    /\ pc = "quit"
    /\ quits' = quits + 1
    /\ pc' = "done"
    /\ UNCHANGED <<position, rows, homepage_load_seconds, viewport, page,
                   started, df, summary, written, session, reporting, probe>>

Next ==
    \/ Baseline
    \/ Check1 \/ Check2 \/ Check3 \/ Check4 \/ Check5 \/ Check6 \/ Check7
    \/ Check8 \/ Check9 \/ Check10 \/ Check11 \/ Check12 \/ Check13
    \/ Check14 \/ Check15 \/ Check16 \/ Check17 \/ Check18 \/ Check19
    \/ Check20 \/ Check21 \/ Check22 \/ Check23 \/ Check24 \/ Check25
    \/ Check26
    \/ Finalize
    \/ Quit

Spec == Init /\ [][Next]_vars

-----------------------------------------------------------------------------
(* The probing loops of checks 7, 8, 13 and 23 followed one call at a time. *)
(* An element is what the page and the servers would answer: the attribute  *)
(* read from it, the URL it names, and the answers a HEAD and a GET request *)
(* for that URL get, whether or not the loop asks for them.  probe.log      *)
(* lists the requests issued, probe.flagged the positions of the elements   *)
(* appended to broken / missing / large_imgs (or setting inconsistent).     *)

ProbeChecks == {7, 8, 13, 23}

Urls == {"u1", "u2"}

\* what get_attribute gives where it names no URL to request
NoUrlAttrs(k) ==
    IF k = 7 THEN {"raise", "None", "relative"}
    ELSE IF k = 23 THEN {"raise", "None", "data"}
    ELSE {"raise", "None"}

SizeAnswers == { [t |-> "raise"], Sized(Val(150000)), Sized(Val(250000)) }

HeadAnswers(k) ==
    IF k = 23 THEN SizeAnswers \cup {Sized(PyNone)} ELSE ProbeAnswers

\* for check 23 size is the length of the body received
GetAnswers(k) == IF k = 23 THEN SizeAnswers ELSE ProbeAnswers

Elements(k) ==
    { [attr |-> a, url |-> "none", head |-> NoCall, get |-> NoCall] :
         a \in NoUrlAttrs(k) }
    \cup { [attr |-> "http", url |-> u, head |-> h, get |-> g] :
              u \in Urls, h \in HeadAnswers(k), g \in GetAnswers(k) }

\* the slices of lines 348, 373, 489 and 705
Sample(k) ==
    IF k = 13 THEN ReadMoreSample
    ELSE IF k = 23 THEN ImageSample
    ELSE LinkSample

\* the row added after the loop (lines 360-362, 390-391, 503-504, 723-724)
ProbeDefect(k) ==
    IF k = 7 THEN add_row(<<>>, "007", "Broken navigation links",
                          SEVERITY_MAP["broken_links"], 7)
    ELSE IF k = 8 THEN add_row(<<>>, "008", "Missing article thumbnails",
                               SEVERITY_MAP["missing_thumbnails"], 8)
    ELSE IF k = 13 THEN add_row(<<>>, "013", "Read More button navigation issue",
                                SEVERITY_MAP["read_more_issue"], 13)
    ELSE add_row(<<>>, "023", "Unoptimized images causing slow rendering",
                 SEVERITY_MAP["unoptimized_images"], 23)

\* the row added by the except clause of the check
ProbeError(k) ==
    IF k = 7 THEN add_row(<<>>, "007", "Broken links check error",
                          SEVERITY_MAP["broken_links"], 7)
    ELSE IF k = 8 THEN add_row(<<>>, "008", "Thumbnail check error",
                               SEVERITY_MAP["missing_thumbnails"], 8)
    ELSE IF k = 13 THEN add_row(<<>>, "013", "Read more check error",
                                SEVERITY_MAP["read_more_issue"], 13)
    ELSE add_row(<<>>, "023", "Unoptimized images check error",
                 SEVERITY_MAP["unoptimized_images"], 23)

\* `if not href or not href.startswith("http"): continue` (lines 350, 707)
skips(k, attr) == k \in {7, 23} /\ attr # "http"

\* `if not src: missing.append(...)` (line 375), `if not href:` (line 491)
flags_attr(k, attr) == k \in {8, 13} /\ attr = "None"

\* the HEAD answer puts the element on the list (lines 354-359, 381-382,
\* 496-502, 710-713)
flags_head(k, a) ==
    IF k \in {7, 13} THEN Bad(a) \/ Failed(a)
    ELSE IF k = 8 THEN Bad(a)
    ELSE a.t = "resp" /\ Truthy(a.size) /\ a.size.v > ImageSizeLimit

\* check 8 asks again with a GET after a HEAD refused with 400 or more too
falls_back_on_status(k, a) ==
    \/ k = 8 /\ (Failed(a) \/ Bad(a))
    \/ k = 23 /\ Failed(a)

\* the except clause of the HEAD request issues a GET (lines 383-386, 714-717)
falls_back(k, a) == k \in {8, 23} /\ Failed(a)

\* the GET answer puts the element on the list (lines 386-389, 717-722)
flags_get(k, a) ==
    IF k = 8 THEN Bad(a) \/ Failed(a)
    ELSE a.t = "resp" /\ a.size.v > ImageSizeLimit

Logged(p, method, answer) ==
    [p EXCEPT !.log = Append(@, [elem |-> p.i, url |-> p.elems[p.i].url,
                                 method |-> method, answer |-> answer])]

NextElem(p) == [p EXCEPT !.i = @ + 1, !.stage = "attr"]

\* append to the list and go on; check 13 sets inconsistent and breaks
Flagged(p) ==
    LET q == [p EXCEPT !.flagged = Append(@, p.i)]
    IN  IF p.check = 13 THEN [q EXCEPT !.stage = "emit"] ELSE NextElem(q)

\* driver.find_elements (lines 345, 371, 487, 703) and the slice
ProbeFind(k) ==
    /\ probe.stage = "idle"
    /\ \E found \in BOOLEAN, elems \in Lists(Elements(k)) :
          probe' = IF found
                   THEN [ProbeIdle EXCEPT !.check = k, !.stage = "attr",
                                          !.i = 1,
                                          !.elems = Take(elems, Sample(k))]
                   ELSE [ProbeIdle EXCEPT !.check = k, !.stage = "done",
                                          !.rows = ProbeError(k)]
    /\ UNCHANGED script_vars

\* get_attribute on the next element of the loop
ProbeAttr ==
    /\ probe.stage = "attr"
    /\ probe.i <= Len(probe.elems)
    /\ LET attr == probe.elems[probe.i].attr
       IN  probe' = IF attr = "raise"
                    THEN [probe EXCEPT !.stage = "done",
                                       !.rows = ProbeError(probe.check)]
                    ELSE IF flags_attr(probe.check, attr) THEN Flagged(probe)
                    ELSE IF skips(probe.check, attr) THEN NextElem(probe)
                    ELSE [probe EXCEPT !.stage = "head"]
    /\ UNCHANGED script_vars

\* requests.head
ProbeHead ==
    /\ probe.stage = "head"
    /\ LET a == probe.elems[probe.i].head
           p == Logged(probe, "HEAD", a)
       IN  probe' = IF falls_back(probe.check, a)
                    THEN [p EXCEPT !.stage = "get"]
                    ELSE IF flags_head(probe.check, a) THEN Flagged(p)
                    ELSE NextElem(p)
    /\ UNCHANGED script_vars

\* requests.get
ProbeGet ==
    /\ probe.stage = "get"
    /\ LET a == probe.elems[probe.i].get
           p == Logged(probe, "GET", a)
       IN  probe' = IF flags_get(probe.check, a) THEN Flagged(p)
                    ELSE NextElem(p)
    /\ UNCHANGED script_vars

\* after the loop: the finding, if the list is not empty
ProbeEmit ==
    /\ \/ probe.stage = "emit"
       \/ probe.stage = "attr" /\ probe.i > Len(probe.elems)
    /\ probe' = [probe EXCEPT !.stage = "done",
                              !.rows = IF probe.flagged # <<>>
                                       THEN ProbeDefect(probe.check)
                                       ELSE <<>>]
    /\ UNCHANGED script_vars

ProbeInit == Init /\ session = "flaky"

ProbeNext ==
    \/ \E k \in ProbeChecks : ProbeFind(k)
    \/ ProbeAttr
    \/ ProbeHead
    \/ ProbeGet
    \/ ProbeEmit

ProbeSpec == ProbeInit /\ [][ProbeNext]_vars

-----------------------------------------------------------------------------
(* Properties *)

\* The kind of each check, in execution order: the SEVERITY_MAP key its rows
\* are meant to look up.  Check 10 (headline placeholders) has no key of its
\* own in SEVERITY_MAP.
KindOf ==
    << "header_overlap", "color_consistency", "text_contrast", "spacing",
       "typography_hierarchy", "responsive_break", "broken_links",
       "missing_thumbnails", "embedded_images", "headline_placeholders",
       "search_not_working", "social_links", "read_more_issue",
       "pagination_issue", "menu_collapse", "image_resize_mobile",
       "horizontal_scroll", "console_errors", "js_blocking", "footer_stack",
       "font_size_mobile", "homepage_load", "unoptimized_images",
       "placeholder_text", "twitter_redirect", "text_overlap_mobile" >>

MappedSeverity(k) ==
    IF KindOf[k] \in DOMAIN SEVERITY_MAP THEN SEVERITY_MAP[KindOf[k]]
    ELSE "unmapped"

InOrder(n) == [i \in 1..n |-> i]

ChecksOver == pc \in {"finalize", "quit", "done"}

RowsOf(k) == {i \in 1..Len(rows) : rows[i].check = k}

\* C1: whatever fails inside a check, the script never stops before the
\* finalize step: the checks started so far are exactly 1..position-1 in
\* order, the finalize step is only entered after all 26 were started, and
\* short of the end of the script some step is always possible.
C1_FailureIsolation ==
    /\ pc # "crashed"
    /\ started = InOrder(position - 1)
    /\ ChecksOver => Len(started) = NumChecks
    /\ pc # "done" => ENABLED Next

\* a session in which every call of every check failed ran to its end
C1_Witness ==
    /\ session = "faulty"
    /\ pc = "done"
    /\ started = InOrder(NumChecks)

\* C2 (as claimed): in a session where every browser and HTTP call fails the
\* findings list holds at least one finding of each of the 26 checks, each
\* with the severity SEVERITY_MAP gives that check's kind.
C2_FaultySessionReportsEveryCheck ==
    (session = "faulty" /\ ChecksOver) =>
        \A k \in 1..NumChecks :
            /\ RowsOf(k) # {}
            /\ \A i \in RowsOf(k) : rows[i].Severity = MappedSeverity(k)

\* C3: driver.quit() is called exactly once, as the last step: after the
\* report was built and its writing either succeeded or failed, after all
\* checks, and never before.
C3_QuitExactlyOnceAtEnd ==
    /\ quits \in {0, 1}
    /\ quits = 1 <=> pc = "done"
    /\ pc \in {"quit", "done"} =>
          /\ written \in {"saved", "failed"}
          /\ summary.built
          /\ started = InOrder(NumChecks)
    /\ pc \notin {"quit", "done"} => written = "pending" /\ ~summary.built

\* checks raised, writing the report failed, and the browser was quit once
C3_Witness ==
    /\ pc = "done"
    /\ quits = 1
    /\ written = "failed"
    /\ \E i \in 1..Len(rows) : rows[i].Title = "Header overlap script crashed"

\* C4: the table built by the finalize step is never empty: with no finding
\* it is one row of severity Info and status Passed and the summary shows
\* 0 High, 0 Medium, 0 Low; with findings it is the findings, nothing added.
C4_TableNeverEmpty ==
    summary.built =>
        /\ df # <<>>
        /\ rows = <<>> =>
              /\ Len(df) = 1
              /\ df[1].Severity = "Info"
              /\ df[1].Status = "Passed"
              /\ summary.High = 0 /\ summary.Medium = 0 /\ summary.Low = 0
        /\ rows # <<>> => df = rows

\* a report was built from an empty findings list
C4_Witness == summary.built /\ rows = <<>> /\ Len(df) = 1

\* C5: the verdict is "Needs Improvement" exactly when some finding has
\* severity High, and "Stable" otherwise.
C5_StabilityVerdict ==
    summary.built =>
        /\ summary.Stability \in {"Needs Improvement", "Stable"}
        /\ summary.Stability = "Needs Improvement"
              <=> \E i \in 1..Len(rows) : rows[i].Severity = "High"

\* a report over findings none of which is High
C5_Witness ==
    /\ summary.built
    /\ session = "flaky"
    /\ rows # <<>>
    /\ summary.Stability = "Stable"

\* C6: the High, Medium and Low counts of the summary are the numbers of
\* findings of that severity in the findings list; the placeholder row adds
\* to none of them.
C6_SeverityCounts ==
    summary.built =>
        /\ summary.High = Cardinality({i \in 1..Len(rows) : rows[i].Severity = "High"})
        /\ summary.Medium = Cardinality({i \in 1..Len(rows) : rows[i].Severity = "Medium"})
        /\ summary.Low = Cardinality({i \in 1..Len(rows) : rows[i].Severity = "Low"})

\* a report counting findings of all three severities
C6_Witness ==
    /\ summary.built
    /\ summary.High > 1 /\ summary.Medium > 1 /\ summary.Low > 1

\* C7 (as claimed): no two findings of a report carry the same Bug ID.
C7_UniqueBugIDs ==
    \A i, j \in 1..Len(rows) : i # j => rows[i].BugID # rows[j].BugID

\* C8: the checks start one at a time in the order 1..26, each once; every
\* step leaves the findings already in the list where they were and appends
\* only findings of the check that step started.
C8_OrderedAppendOnly ==
    [][ /\ Len(rows') >= Len(rows)
        /\ SubSeq(rows', 1, Len(rows)) = rows
        /\ started' # started => started' = Append(started, Len(started) + 1)
        /\ \A i \in (Len(rows) + 1)..Len(rows') :
              started' # started /\ rows'[i].check = Len(started')
        /\ (pc = "checks" /\ pc' = "finalize") => started' = InOrder(NumChecks)
      ]_vars

\* findings of an earlier and of a later check, in that order
C8_Witness ==
    /\ pc = "finalize"
    /\ Len(rows) >= 2
    /\ rows[1].check < rows[Len(rows)].check

\* C9 (as claimed): every finding has the severity SEVERITY_MAP gives the
\* kind of the check that emitted it.
C9_SeverityOfOwnKind ==
    \A i \in 1..Len(rows) : rows[i].Severity = MappedSeverity(rows[i].check)

\* C10: when the initial navigation failed (no baseline measurement) the
\* script still starts every check in order and reaches the finalize step,
\* and check 22 adds no finding whenever the navigation timing is missing too.
C10_NavigationFailureDegrades ==
    /\ At(1) => (homepage_load_seconds = PyNone <=> page = "blank")
    /\ (pc # "baseline" /\ homepage_load_seconds = PyNone) =>
          /\ pc # "crashed"
          /\ started = InOrder(position - 1)
          /\ ChecksOver => Len(started) = NumChecks
          /\ At(22) =>
                \A e \in Env22 :
                    nav_load_ms(safe_js(e.nav)) = PyNone =>
                        check22(S, homepage_load_seconds, e).rows = rows

\* the initial navigation failed, the navigation timing was missing, check 22
\* ran and added nothing, and the report was reached
C10_Witness ==
    /\ session = "faulty"
    /\ homepage_load_seconds = PyNone
    /\ pc = "quit"
    /\ RowsOf(22) = {}
    /\ RowsOf(23) # {}

-----------------------------------------------------------------------------
\* the initial driver.get failed: only the except of line 124 leaves the
\* baseline absent
InitialLoadFailed == pc # "baseline" /\ homepage_load_seconds = PyNone

\* C11 as stated: a navigation failure on the initial load is fatal (no check
\* is executed after it), and a navigation failure inside a check (the
\* driver.get of check 14) is caught so that the run continues.
C11_InitialFailureIsFatal ==
    /\ InitialLoadFailed => started = <<>>
    /\ At(14) => \A e \in Env14 : ~e.get => ~check14(S, e).raised

\* C11, amended: no navigation failure is fatal.  After a failed initial load
\* the script is not ended, check 1 is the next thing to run and every check
\* has run by the time the report is built; a failed driver.get inside check
\* 14 does not leave the check.
C11_NavigationFailuresAreCaught ==
    /\ InitialLoadFailed =>
          /\ pc \in {"checks", "finalize", "quit", "done"}
          /\ (started = <<>> => At(1))
          /\ (pc # "checks" => started = InOrder(NumChecks))
    /\ At(14) => \A e \in Env14 : ~e.get => ~check14(S, e).raised

\* the initial load failed, the checks ran all the same in a session whose
\* later calls may succeed, and the script ended normally
C11_Witness ==
    /\ InitialLoadFailed
    /\ session = "flaky"
    /\ Len(started) = NumChecks
    /\ pc = "done"

-----------------------------------------------------------------------------
\* the titles of the rows the except clauses of the checks that call safe_js
\* add (checks 2-6, 9, 17, 19-22 and 26)
ErrorTitles ==
    { "Color consistency check error", "Text contrast check error",
      "Spacing check error", "Typography check error",
      "Responsive check error", "Embedded image check error",
      "Horizontal scroll check error", "JS blocking check error",
      "JS blocking suspected", "Footer stacking check error",
      "Font size check error", "Homepage load measurement error",
      "Text overlap detection error" }

\* the check that ended in r went through its except clause
TookErrorPath(r) ==
    /\ Len(r.rows) > Len(rows)
    /\ r.rows[Len(r.rows)].Title \in ErrorTitles

\* failed is the result of a check whose scripts all failed, same is its
\* result with the same answers to every other call
NotByEvaluateAlone(failed, same) ==
    /\ ~failed.raised
    /\ TookErrorPath(failed) => TookErrorPath(same)

\* C12: safe_js returns None when the script execution fails and never raises
\* to its caller; so no check goes through its except clause because its
\* scripts failed: with every script of a check failing, the check takes its
\* error path only if it also takes it when the scripts answer.
C12_FailedEvaluateIsNone ==
    /\ safe_js(JsRaise) = PyNone
    /\ pc = "baseline" =>
          \A e \in EnvBaseline :
              e.get => baseline([e EXCEPT !.timing = JsRaise]).hls # PyNone
    /\ At(2) => \A e \in Env2 :
          NotByEvaluateAlone(check2(S, [e EXCEPT !.btn_colors = JsRaise,
                                                 !.link_colors = JsRaise]),
                             check2(S, e))
    /\ At(3) => \A e \in Env3 :
          NotByEvaluateAlone(check3(S, [e EXCEPT !.color_pairs = JsRaise]),
                             check3(S, e))
    /\ At(4) => \A e \in Env4 :
          NotByEvaluateAlone(check4(S, [e EXCEPT !.sections = JsRaise]),
                             check4(S, e))
    /\ At(5) => \A e \in Env5 :
          NotByEvaluateAlone(check5(S, [e EXCEPT !.sizes = JsRaise]),
                             check5(S, e))
    /\ At(6) => \A e \in Env6 :
          NotByEvaluateAlone(check6(S, [e EXCEPT !.inner_w = JsRaise,
                                                 !.max_width = JsRaise]),
                             check6(S, e))
    /\ At(9) => \A e \in Env9 :
          NotByEvaluateAlone(check9(S, [e EXCEPT !.imgs_info = JsRaise]),
                             check9(S, e))
    /\ At(17) => \A e \in Env17 :
          NotByEvaluateAlone(check17(S, [e EXCEPT !.inner_w = JsRaise,
                                                  !.body_w = JsRaise]),
                             check17(S, e))
    /\ At(19) => \A e \in Env19 :
          NotByEvaluateAlone(check19(S, [e EXCEPT !.perf = JsRaise,
                                                  !.timing = JsRaise]),
                             check19(S, e))
    /\ At(20) => \A e \in Env20 :
          NotByEvaluateAlone(check20(S, [e EXCEPT !.child_widths = JsRaise]),
                             check20(S, e))
    /\ At(21) => \A e \in Env21 :
          NotByEvaluateAlone(check21(S, [e EXCEPT !.sizes = JsRaise]),
                             check21(S, e))
    /\ At(22) => \A e \in Env22 :
          NotByEvaluateAlone(
              check22(S, homepage_load_seconds, [e EXCEPT !.nav = JsRaise]),
              check22(S, homepage_load_seconds, e))
    /\ At(26) => \A e \in Env26 :
          NotByEvaluateAlone(check26(S, [e EXCEPT !.overlaps = JsRaise]),
                             check26(S, e))

\* checks 2, 4 and 5 call nothing but safe_js: all their scripts failed and
\* none of them added a row
C12_Witness ==
    /\ session = "faulty"
    /\ position = 6
    /\ \A k \in {2, 4, 5} : RowsOf(k) = {}

-----------------------------------------------------------------------------
\* the findings a check leaves are neither those of its passing run nor those
\* of its run that reports the defect
Inconclusive(r, passing, failing) ==
    /\ r.rows # passing.rows
    /\ r.rows # failing.rows

\* C13 as stated, for the checks whose data come from safe_js alone (6, 9 and
\* 17): when a script yields None the findings list is left in a way that
\* differs from the check passing and from the check reporting its defect.
C13_NoneIsInconclusive ==
    /\ At(6) => \A e \in Env6 :
          (e.set_window_size /\ safe_js(e.max_width) = PyNone) =>
              Inconclusive(check6(S, e),
                           check6(S, [e EXCEPT !.inner_w = Val(390),
                                               !.max_width = Val(390)]),
                           check6(S, [e EXCEPT !.inner_w = Val(390),
                                               !.max_width = Val(430)]))
    /\ At(9) => \A e \in Env9 :
          safe_js(e.imgs_info) = PyNone =>
              Inconclusive(check9(S, e),
                           check9(S, [e EXCEPT !.imgs_info = Val(<<640>>)]),
                           check9(S, [e EXCEPT !.imgs_info = Val(<<0>>)]))
    /\ At(17) => \A e \in Env17 :
          (e.set_window_size /\ safe_js(e.body_w) = PyNone) =>
              Inconclusive(check17(S, e),
                           check17(S, [e EXCEPT !.inner_w = Val(390),
                                                !.body_w = Val(390)]),
                           check17(S, [e EXCEPT !.inner_w = Val(390),
                                                !.body_w = Val(430)]))

-----------------------------------------------------------------------------
\* the requests of the log made for element i
RequestsFor(i, method) ==
    {j \in 1..Len(probe.log) :
        probe.log[j].elem = i /\ probe.log[j].method = method}

ProbeFailed(a) == Bad(a) \/ Failed(a)

\* C14 as stated, for the loops of checks 7, 8 and 13 once they are over: a
\* probe that returned a status of 400 or more, or ended in a transport error,
\* has the check emit its finding; every probed URL got a HEAD request and,
\* where that failed, a GET request as fallback; and no more than the sample
\* (120, or 8 for Read More) was gone through.
C14_ProbeFailureIsReported ==
    (probe.check \in {7, 8, 13} /\ probe.stage = "done") =>
        /\ \A j \in 1..Len(probe.log) :
              /\ ProbeFailed(probe.log[j].answer) =>
                     probe.rows = ProbeDefect(probe.check)
              /\ (probe.log[j].method = "HEAD" /\ Failed(probe.log[j].answer))
                     => RequestsFor(probe.log[j].elem, "GET") # {}
              /\ probe.log[j].method = "GET" =>
                     RequestsFor(probe.log[j].elem, "HEAD") # {}
        /\ Len(probe.elems) <= Sample(probe.check)

-----------------------------------------------------------------------------
\* the elements put on the list of the check
FlaggedElems == Range(probe.flagged)

\* the loop has left element i behind
Past(i) == probe.i > i \/ probe.stage \in {"emit", "done"}

-----------------------------------------------------------------------------
\* the titles of the rows r has more than the findings list
AddedTitles(r) == {r.rows[i].Title : i \in (Len(rows) + 1)..Len(r.rows)}

\* C16 as stated: in check 19, when the long-task query yields no value the
\* check falls back to navigation timing and reports if loadEventEnd -
\* navigationStart exceeds 3000 ms; when the query yields entries it reports
\* iff some entry lasted more than 50 ms.
C16_LongTaskFallback ==
    At(19) =>
        \A e \in Env19 :
            LET perf == safe_js(e.perf)
                r == check19(S, e)
            IN  /\ (perf = PyNone /\ e.timing.t = "val"
                      /\ e.timing.v > SlowLoadMs)
                      => AddedTitles(r) = {"JS blocking suspected"}
                /\ perf.t = "val" =>
                      (AddedTitles(r) = {"JS blocking main-thread rendering"}
                         <=> \E i \in 1..Len(perf.v) : perf.v[i] > LongTaskMs)

-----------------------------------------------------------------------------
\* answer a carries a size above the limit of check 23
TooLarge(a) == a.t = "resp" /\ Truthy(a.size) /\ a.size.v > ImageSizeLimit

\* C17 as stated, for the loop of check 23 once it is over: the finding, of
\* severity Medium, is emitted whenever a sampled http(s) image had a reported
\* Content-Length or a fetched body above 200000 bytes; no defect finding is
\* emitted when every sampled image is at most 200000 bytes; and an image
\* whose HEAD response carries no Content-Length is measured by fetching it.
C17_LargeImagesReported ==
    (probe.check = 23 /\ probe.stage = "done") =>
        /\ ProbeDefect(23)[1].Severity = "Medium"
        /\ (\E j \in 1..Len(probe.log) : TooLarge(probe.log[j].answer))
              => probe.rows = ProbeDefect(23)
        /\ (\A i \in 1..Len(probe.elems) :
                probe.elems[i].attr = "http" =>
                    /\ ~TooLarge(probe.elems[i].head)
                    /\ ~TooLarge(probe.elems[i].get))
              => probe.rows # ProbeDefect(23)
        /\ \A j \in 1..Len(probe.log) :
              (probe.log[j].method = "HEAD"
               /\ probe.log[j].answer = Sized(PyNone))
                  => RequestsFor(probe.log[j].elem, "GET") # {}

-----------------------------------------------------------------------------
\* C18: aggregating the same findings list twice gives the same summary
\* values and leaves the list as it was: the finalize step does not change
\* rows, and aggregating the list it leaves behind once more gives again the
\* table and the Total, High, Medium, Low and stability values it stored, and
\* again the same list.
C18_AggregationIdempotent ==
    [][pc = "finalize" =>
          LET again == aggregate(rows')
          IN  /\ rows' = rows
              /\ again.rows = rows'
              /\ again.df = df'
              /\ again.summary = summary'
              /\ summary'.built]_vars

\* the aggregation ran over an empty list, where it adds its placeholder row
\* to the table
C18_Witness ==
    /\ summary.built
    /\ rows = <<>>
    /\ df = <<Placeholder>>

-----------------------------------------------------------------------------
\* the set_window_size call of check k raised: its except clause left a row
ResizeFailed(k, title, rs) ==
    \E i \in 1..Len(rs) : rs[i].check = k /\ rs[i].Title = title

\* C19: the viewport is never rolled back.  Check 1 leaves the desktop
\* viewport when its resize succeeded; from the start of check 6 on no step
\* sets the viewport to desktop; and whenever the resize of check 6 succeeded,
\* each of the checks 7 to 26, and the finalize step, starts with the mobile
\* viewport.
C19_ViewportNeverRolledBack ==
    [][/\ (At(1) /\ ~ResizeFailed(1, "Header overlap script crashed", rows'))
             => viewport' = "desktop"
       /\ (position >= 6 /\ viewport' = "desktop") => viewport = "desktop"
       /\ (position' > 6 /\ ~ResizeFailed(6, "Responsive check error", rows'))
             => viewport' = "mobile"]_vars

\* the search check is about to run, in the mobile viewport left by check 6,
\* in a session where check 1 had set the desktop viewport
C19_Witness ==
    /\ At(11)
    /\ session = "flaky"
    /\ viewport = "mobile"
    /\ RowsOf(1) = {}
    /\ RowsOf(6) = {}

-----------------------------------------------------------------------------
\* how many times the check that ended in r issued call c
Issued(r, c) == Cardinality({i \in 1..Len(r.nav) : r.nav[i] = c})

\* a browser call escaped the paging block of check 14: driver.current_url
\* raised in one of the six iterations
Escaped14(e) == e.stop_at <= PaginationLimit /\ e.stop_how = "url_raise"

\* C20: navigation is restored on a best-effort basis only.  Check 14 clicks
\* Next at most 6 times, and issues driver.get(TARGET_URL), once and after
\* the clicks, exactly on the path where Next was found and no browser call
\* escaped the paging block; where it is not issued after a click, or where it
\* fails, the browser is left on another page.  Check 11 issues no driver.get
\* after clicking the search button and leaves the page the click led to.
\* Check 13 issues no click and no driver.get and leaves the page as it is.
C20_BestEffortNavigationRestore ==
    /\ At(14) => \A e \in Env14 :
          LET r == check14(S, e)
          IN  /\ Issued(r, "click") <= PaginationLimit
              /\ Issued(r, "get") =
                    (IF e.pag_next /\ ~Escaped14(e) THEN 1 ELSE 0)
              /\ Issued(r, "get") = 1 => r.nav[Len(r.nav)] = "get"
              /\ r.page = (IF Issued(r, "get") = 1 /\ e.get THEN "home"
                           ELSE IF Issued(r, "click") > 0 THEN "other"
                           ELSE page)
    /\ At(11) => \A e \in Env11 :
          LET r == check11(S, e)
          IN  /\ Issued(r, "get") = 0
              /\ Issued(r, "click") <= 1
              /\ r.page = (IF Issued(r, "click") = 1 /\ e.navigated
                           THEN "other" ELSE page)
    /\ At(13) => \A e \in Env13 :
          LET r == check13(S, e)
          IN  r.nav = <<>> /\ r.page = page

\* the initial load succeeded, and check 15 is about to run on a page other
\* than the homepage
C20_Witness ==
    /\ At(15)
    /\ homepage_load_seconds # PyNone
    /\ page = "other"

-----------------------------------------------------------------------------
\* C21 as stated: the Total Bugs Reported value of the summary is the number
\* of findings the checks emitted, hence 0 when no check emitted one; the
\* placeholder row is not counted.
C21_TotalIsNumberOfFindings ==
    summary.built =>
        /\ summary.Total = Len(rows)
        /\ (rows = <<>> => summary.Total = 0)

====
